---- MODULE Spec2Model ----
(***************************************************************************)
(* Model of python_service: the Neighbor-Joining tree engine               *)
(* (models/phylogenetic.py), driven sequentially on one instance (Spec)    *)
(* and by two concurrent HTTP requests sharing the process-wide pipeline   *)
(* (SpecConc, app.py).                                                     *)
(*                                                                         *)
(* Numbers are fixed point: 96 stands for 1.0, so the default threshold    *)
(* 0.5 is 48.  Strings that the code splits at '_' are sequences of their  *)
(* '_'-separated pieces: "A_01" is <<"A", "01">>, None is <<>>.            *)
(***************************************************************************)
EXTENDS Integers, Sequences, FiniteSets, TLC

\* ---------------------------------------------------------------- bounds
\* largest number of items of an input
MaxN == 4
\* number of calls made on the instance in one behaviour
MaxCalls == 2
\* largest number of articles of a dataset file
MaxArticles == 3

\* ------------------------------------------------------------- constants
\* find_clusters(threshold=0.5), in fixed point
DefaultThreshold == 48

NoName == << >>
NoLength == 0 - 1
NoTree == << >>

Max2(a, b) == IF a >= b THEN a ELSE b

RECURSIVE SumSeq(_)
SumSeq(s) == IF s = << >> THEN 0 ELSE Head(s) + SumSeq(Tail(s))

RangeOf(s) == { s[i] : i \in 1..Len(s) }

\* the sequence s without the positions in the set drop
RECURSIVE DeleteAt(_, _, _)
DeleteAt(s, drop, i) ==
    IF i > Len(s) THEN << >>
    ELSE IF i \in drop THEN DeleteAt(s, drop, i + 1)
    ELSE << s[i] >> \o DeleteAt(s, drop, i + 1)

\* ------------------------------------------------------- numpy.ndarray
\* a 2-d array is the sequence of its rows
Rows(m) == Len(m)
Cols(m) == IF Len(m) = 0 THEN 0 ELSE Len(m[1])

\* ------------------------------------------------ skbio.DistanceMatrix
\* (a variant without the symmetry check)
DistanceMatrixMissingSymmetry(m, labels) ==
    IF Rows(m) = 0 \/ Cols(m) = 0 THEN "DissimilarityMatrixError"
    ELSE IF Rows(m) # Cols(m) THEN "DissimilarityMatrixError"
    ELSE IF \E i \in 1..Rows(m) : m[i][i] # 0 THEN "DissimilarityMatrixError"
    ELSE IF Cardinality(RangeOf(labels)) # Len(labels) THEN "DissimilarityMatrixError"
    ELSE IF Len(labels) # Rows(m) THEN "DissimilarityMatrixError"
    ELSE "none"

\* DistanceMatrix(distance_matrix, ids=labels): the exception it raises,
\* or "none".  DistanceMatrixError is a subclass of
\* DissimilarityMatrixError.
DistanceMatrix(m, labels) ==
    IF Rows(m) = 0 \/ Cols(m) = 0 THEN "DissimilarityMatrixError"
    ELSE IF Rows(m) # Cols(m) THEN "DissimilarityMatrixError"
    ELSE IF \E i, j \in 1..Rows(m) : m[i][j] # m[j][i] THEN "DistanceMatrixError"
    ELSE IF \E i \in 1..Rows(m) : m[i][i] # 0 THEN "DissimilarityMatrixError"
    ELSE IF Cardinality(RangeOf(labels)) # Len(labels) THEN "DissimilarityMatrixError"
    ELSE IF Len(labels) # Rows(m) THEN "DissimilarityMatrixError"
    ELSE "none"

\* ------------------------------------------------------- skbio.tree.nj
\* A tree is an arena: a sequence of nodes, the root last.  Node i of
\* 1..n is the leaf of labels[i].
Leaf(label) == [name |-> label, length |-> NoLength, children |-> << >>]

LeafNodes(labels) == [i \in 1..Len(labels) |-> Leaf(labels[i])]

\* Q_ij = (m-2) d_ij - r_i - r_j
ComputeQ(dm, i, j) ==
    (Len(dm) - 2) * dm[i][j] - SumSeq(dm[i]) - SumSeq(dm[j])

LowerPairs(dm) == { p \in (1..Len(dm)) \X (1..Len(dm)) : p[1] > p[2] }

\* (a variant that takes the pair with the highest Q)
HighestIndex(dm) ==
    CHOOSE p \in LowerPairs(dm) :
        \A q \in LowerPairs(dm) :
            \/ ComputeQ(dm, p[1], p[2]) > ComputeQ(dm, q[1], q[2])
            \/ /\ ComputeQ(dm, p[1], p[2]) = ComputeQ(dm, q[1], q[2])
               /\ \/ p[1] < q[1]
                  \/ p[1] = q[1] /\ p[2] <= q[2]

\* the first pair of the lower triangle, row by row, with the lowest Q
\* (skbio takes the tied pair nearest to the top-left corner, which is this
\* pair for matrices of up to 6 rows)
LowestIndex(dm) ==
    CHOOSE p \in LowerPairs(dm) :
        \A q \in LowerPairs(dm) :
            \/ ComputeQ(dm, p[1], p[2]) < ComputeQ(dm, q[1], q[2])
            \/ /\ ComputeQ(dm, p[1], p[2]) = ComputeQ(dm, q[1], q[2])
               /\ \/ p[1] < q[1]
                  \/ p[1] = q[1] /\ p[2] <= q[2]

\* (a variant that puts the new node half way between the two members)
PairMembersToNewNodeHalfWay(dm, i, j) ==
    << dm[i][j] \div 2, dm[i][j] - (dm[i][j] \div 2) >>

\* the two branch lengths to the new node, negative lengths set to 0
PairMembersToNewNode(dm, i, j) ==
    LET n    == Len(dm)
        itou == Max2(0, ((n - 2) * dm[i][j] + SumSeq(dm[i]) - SumSeq(dm[j]))
                            \div (2 * (n - 2)))
        jtou == Max2(0, dm[i][j] - itou)
    IN << itou, jtou >>

\* distances to the new node, which takes the first row and column
ComputeCollapsedDm(dm, i, j) ==
    LET keep == DeleteAt([k \in 1..Len(dm) |-> k], {i, j}, 1)
        ktou == [k \in 1..Len(keep) |->
                    Max2(0, (dm[i][keep[k]] + dm[j][keep[k]] - dm[i][j]) \div 2)]
    IN [a \in 1..(Len(keep) + 1) |->
         [b \in 1..(Len(keep) + 1) |->
            IF a = 1 /\ b = 1 THEN 0
            ELSE IF a = 1 THEN ktou[b - 1]
            ELSE IF b = 1 THEN ktou[a - 1]
            ELSE dm[keep[a - 1]][keep[b - 1]]]]

SetLength(nodes, k, len) ==
    [i \in 1..Len(nodes) |->
        IF i = k THEN [name |-> nodes[i].name, length |-> len,
                       children |-> nodes[i].children]
        ELSE nodes[i]]

\* one reduction per call while more than three rows are left, then the
\* three-way join at the root
RECURSIVE NjReduce(_, _, _)
NjReduce(dm, ids, nodes) ==
    IF Len(dm) > 3
    THEN LET p    == LowestIndex(dm)
             lens == PairMembersToNewNode(dm, p[1], p[2])
             sub  == SetLength(SetLength(nodes, ids[p[1]], lens[1]), ids[p[2]], lens[2])
             u    == [name |-> NoName, length |-> NoLength,
                      children |-> << ids[p[1]], ids[p[2]] >>]
         IN NjReduce(ComputeCollapsedDm(dm, p[1], p[2]),
                     << Len(nodes) + 1 >> \o DeleteAt(ids, {p[1], p[2]}, 1),
                     Append(sub, u))
    ELSE LET lens == PairMembersToNewNode(dm, 2, 3)
             ilen == Max2(0, (dm[2][1] + dm[3][1] - dm[2][3]) \div 2)
             sub  == SetLength(SetLength(SetLength(nodes, ids[2], lens[1]),
                                         ids[1], ilen), ids[3], lens[2])
             root == [name |-> NoName, length |-> NoLength,
                      children |-> << ids[2], ids[1], ids[3] >>]
         IN Append(sub, root)

\* (a variant that joins the last three nodes in two steps, under a root
\* with two children)
njRooted(m, labels) ==
    LET t == NjReduce(m, [i \in 1..Len(labels) |-> i], LeafNodes(labels))
        r == t[Len(t)]
    IN SubSeq(t, 1, Len(t) - 1)
       \o << [name |-> NoName, length |-> 0,
              children |-> << r.children[1], r.children[2] >>],
             [name |-> NoName, length |-> NoLength,
              children |-> << Len(t), r.children[3] >>] >>

nj(m, labels) == NjReduce(m, [i \in 1..Len(labels) |-> i], LeafNodes(labels))

\* ------------------------------------------------------ skbio.TreeNode
Root(tree) == Len(tree)

IsTip(tree, k) == tree[k].children = << >>

\* all nodes below and including k, children before their parent
RECURSIVE Postorder(_, _)
RECURSIVE PostorderAll(_, _)
Postorder(tree, k) == PostorderAll(tree, tree[k].children) \o << k >>
PostorderAll(tree, ks) ==
    IF ks = << >> THEN << >>
    ELSE Postorder(tree, Head(ks)) \o PostorderAll(tree, Tail(ks))

\* node.tips(): the tips below k, k itself left out
TipsOf(tree, k) ==
    LET keep(x) == x # k /\ IsTip(tree, x)
    IN SelectSeq(Postorder(tree, k), keep)

\* node.non_tips(): the internal nodes below k, k itself left out
NonTipsOf(tree, k) ==
    LET keep(x) == x # k /\ ~IsTip(tree, x)
    IN SelectSeq(Postorder(tree, k), keep)

Parent(tree, k) ==
    CHOOSE p \in 1..Len(tree) : k \in RangeOf(tree[p].children)

\* the nodes on the way from k to the root, the root left out
RECURSIVE PathUp(_, _)
PathUp(tree, k) ==
    IF k = Root(tree) THEN {} ELSE {k} \cup PathUp(tree, Parent(tree, k))

LengthOr0(tree, k) == IF tree[k].length = NoLength THEN 0 ELSE tree[k].length

RECURSIVE SumLengths(_, _)
SumLengths(tree, ks) ==
    IF ks = {} THEN 0
    ELSE LET k == CHOOSE x \in ks : TRUE
         IN LengthOr0(tree, k) + SumLengths(tree, ks \ {k})

\* (a variant that adds up the lengths of the tips only)
TotalLengthOfTips(tree) ==
    LET tip(k) == IsTip(tree, k)
    IN SumLengths(tree, { k \in 1..Len(tree) : tip(k) })

\* TreeNode.total_length(): the lengths of all nodes below the root
TotalLength(tree) == SumLengths(tree, RangeOf(Postorder(tree, Root(tree))) \ {Root(tree)})

TipTipDistance(tree, a, b) ==
    SumLengths(tree, (PathUp(tree, a) \ PathUp(tree, b))
                        \cup (PathUp(tree, b) \ PathUp(tree, a)))

\* (a variant that takes the largest distance from a tip to the root)
MaxTipToRootDistance(tree) ==
    LET tips == RangeOf(TipsOf(tree, Root(tree)))
        ds   == { SumLengths(tree, PathUp(tree, a)) : a \in tips }
    IN CHOOSE d \in ds : \A e \in ds : e <= d

\* max(tree.tip_tip_distances().condensed_form())
MaxTipTipDistance(tree) ==
    LET tips == RangeOf(TipsOf(tree, Root(tree)))
        ds   == { TipTipDistance(tree, a, b) : a \in tips, b \in tips }
    IN CHOOSE d \in ds : \A e \in ds : e <= d

LeafNames(tree) == { tree[k].name : k \in RangeOf(TipsOf(tree, Root(tree))) }

\* ------------------------------------- NeighborJoining.name_internal_nodes
\* `name and '_' in name`: the name has a category before its first '_'
HasCategory(name) == Len(name) > 1

\* name.split('_')[0]
CategoryOf(name) == Head(name)

\* the categories of the tips below k, in tip order
CategoriesOf(tree, k) ==
    LET tips == TipsOf(tree, k)
        has(x) == HasCategory(tree[x].name)
        sel  == SelectSeq(tips, has)
    IN [i \in 1..Len(sel) |-> CategoryOf(tree[sel[i]].name)]

Count(cats, c) == Cardinality({ i \in 1..Len(cats) : cats[i] = c })

FirstAt(cats, c) == CHOOSE i \in 1..Len(cats) : cats[i] = c /\ \A j \in 1..(i - 1) : cats[j] # c

\* Counter(cats).most_common(): c comes before e
Before(cats, c, e) ==
    \/ Count(cats, c) > Count(cats, e)
    \/ Count(cats, c) = Count(cats, e) /\ FirstAt(cats, c) < FirstAt(cats, e)

\* the element of the set cs that most_common() lists first
MostCommonIn(cats, cs) ==
    CHOOSE c \in cs : \A e \in cs \ {c} : Before(cats, c, e)

\* get_common_category(node) of an internal node: NoName stands for None
GetCommonCategory(tree, k) ==
    LET cats == CategoriesOf(tree, k)
        cs   == RangeOf(cats)
    IN IF cats = << >> THEN NoName
       ELSE LET top == MostCommonIn(cats, cs)
            IN IF 2 * Count(cats, top) > Len(cats)
               THEN << top, "cluster" >>
               ELSE IF Cardinality(cs) >= 2
                    THEN << top, MostCommonIn(cats, cs \ {top}), "mixed" >>
                    ELSE << top, "cluster" >>

SetName(tree, k, nm) ==
    [i \in 1..Len(tree) |->
        IF i = k THEN [name |-> nm, length |-> tree[i].length,
                       children |-> tree[i].children]
        ELSE tree[i]]

\* first loop: every unnamed internal node below the root gets its name
RECURSIVE NameNodes(_, _)
NameNodes(tree, ks) ==
    IF ks = << >> THEN tree
    ELSE LET k == Head(ks)
             named == IF tree[k].name = NoName
                      THEN SetName(tree, k, GetCommonCategory(tree, k))
                      ELSE tree
         IN NameNodes(named, Tail(ks))

\* (a variant of the second loop that appends the count to every name, the
\* first of its kind too)
RECURSIVE UniqueNamesAlwaysSuffixed(_, _, _)
UniqueNamesAlwaysSuffixed(tree, ks, counts) ==
    IF ks = << >> THEN tree
    ELSE LET k == Head(ks)
             nm == tree[k].name
             c  == IF nm \in DOMAIN counts THEN counts[nm] + 1 ELSE 1
         IN IF nm = NoName THEN UniqueNamesAlwaysSuffixed(tree, Tail(ks), counts)
            ELSE UniqueNamesAlwaysSuffixed(
                     SetName(tree, k, Append(nm, ToString(c))), Tail(ks),
                     [x \in DOMAIN counts \cup {nm} |-> IF x = nm THEN c ELSE counts[x]])

\* (a variant of the second loop that counts the names by their category,
\* the piece before the first '_')
RECURSIVE UniqueNamesByCategory(_, _, _)
UniqueNamesByCategory(tree, ks, counts) ==
    IF ks = << >> THEN tree
    ELSE LET k == Head(ks)
             nm == tree[k].name
             key == << Head(nm) >>
         IN IF nm = NoName THEN UniqueNamesByCategory(tree, Tail(ks), counts)
            ELSE IF key \in DOMAIN counts
            THEN UniqueNamesByCategory(
                     SetName(tree, k, Append(nm, ToString(counts[key] + 1))), Tail(ks),
                     [x \in DOMAIN counts |->
                         IF x = key THEN counts[x] + 1 ELSE counts[x]])
            ELSE UniqueNamesByCategory(tree, Tail(ks),
                     [x \in DOMAIN counts \cup {key} |->
                         IF x = key THEN 1 ELSE counts[x]])

\* (a variant of the second loop that appends the count before adding one)
RECURSIVE UniqueNamesOffByOne(_, _, _)
UniqueNamesOffByOne(tree, ks, counts) ==
    IF ks = << >> THEN tree
    ELSE LET k == Head(ks)
             nm == tree[k].name
         IN IF nm = NoName THEN UniqueNamesOffByOne(tree, Tail(ks), counts)
            ELSE IF nm \in DOMAIN counts
            THEN UniqueNamesOffByOne(
                     SetName(tree, k, Append(nm, ToString(counts[nm]))), Tail(ks),
                     [x \in DOMAIN counts |->
                         IF x = nm THEN counts[x] + 1 ELSE counts[x]])
            ELSE UniqueNamesOffByOne(tree, Tail(ks),
                     [x \in DOMAIN counts \cup {nm} |->
                         IF x = nm THEN 1 ELSE counts[x]])

\* second loop: a name seen before gets '_<count>' appended; counts maps a
\* name to the number of nodes that carried it so far
RECURSIVE UniqueNames(_, _, _)
UniqueNames(tree, ks, counts) ==
    IF ks = << >> THEN tree
    ELSE LET k == Head(ks)
             nm == tree[k].name
         IN IF nm = NoName THEN UniqueNames(tree, Tail(ks), counts)
            ELSE IF nm \in DOMAIN counts
            THEN UniqueNames(SetName(tree, k, Append(nm, ToString(counts[nm] + 1))),
                             Tail(ks),
                             [x \in DOMAIN counts |->
                                 IF x = nm THEN counts[x] + 1 ELSE counts[x]])
            ELSE UniqueNames(tree, Tail(ks),
                             [x \in DOMAIN counts \cup {nm} |->
                                 IF x = nm THEN 1 ELSE counts[x]])

NoCounts == [x \in {} |-> 0]

NameInternalNodes(tree) ==
    UniqueNames(NameNodes(tree, NonTipsOf(tree, Root(tree))),
                NonTipsOf(tree, Root(tree)), NoCounts)

\* ------------------------------------------------------------ str(tree)
\* The Newick text as the sequence of its pieces.  A name with a '_' in it
\* is written between quotes.
RECURSIVE JoinWith(_, _)
JoinWith(parts, sep) ==
    IF Len(parts) <= 1 THEN parts
    ELSE << Head(parts), sep >> \o JoinWith(Tail(parts), sep)

\* the pieces of the labels that hold one of the characters , : ; ( ) [ ]
ReservedPieces == {"x:1", "(y)"}

HasReserved(name) == \E i \in 1..Len(name) : name[i] \in ReservedPieces

\* (a variant that writes every name as it is, without quotes)
NewickNameUnquoted(name) ==
    IF name = NoName THEN << >> ELSE JoinWith(name, "_")

NewickName(name) ==
    IF name = NoName THEN << >>
    ELSE IF Len(name) > 1 \/ HasReserved(name) THEN << "'" >> \o JoinWith(name, "_") \o << "'" >>
    ELSE name

RECURSIVE NewickNode(_, _)
RECURSIVE NewickChildren(_, _)
NewickNode(tree, k) ==
    (IF IsTip(tree, k) THEN << >>
     ELSE << "(" >> \o NewickChildren(tree, tree[k].children) \o << ")" >>)
    \o NewickName(tree[k].name)
    \o (IF tree[k].length = NoLength THEN << >>
        ELSE << ":", ToString(tree[k].length) >>)
NewickChildren(tree, ks) ==
    IF Len(ks) = 1 THEN NewickNode(tree, ks[1])
    ELSE NewickNode(tree, Head(ks)) \o << "," >> \o NewickChildren(tree, Tail(ks))

Newick(tree) == NewickNode(tree, Root(tree)) \o << ";" >>

\* --------------------------------------- NeighborJoining.find_clusters
\* traverse_and_cluster(node, current_cluster, accumulated_distance) with
\* the closure's clusters and visited in st; the result is st afterwards
RECURSIVE TraverseAndCluster(_, _, _, _, _, _)
RECURSIVE TraverseChildren(_, _, _, _, _, _)
\* (a variant that does not record in visited the names it appends to the
\* current cluster)
TraverseAndClusterForgetful(tree, k, cur, acc, thr, st) ==
    LET nm    == tree[k].name
        fresh == nm # NoName /\ nm \notin st.visited
        near  == acc <= thr
        cur1  == IF ~fresh THEN cur ELSE IF near THEN Append(cur, nm) ELSE << nm >>
        acc1  == IF fresh /\ ~near THEN 0 ELSE acc
        st1   == IF ~fresh \/ near THEN st
                 ELSE [clusters |-> IF cur # << >>
                                    THEN Append(st.clusters, cur) ELSE st.clusters,
                       visited  |-> st.visited \cup {nm}]
    IN TraverseChildren(tree, tree[k].children, cur1, acc1, thr, st1)

TraverseAndCluster(tree, k, cur, acc, thr, st) ==
    LET nm    == tree[k].name
        fresh == nm # NoName /\ nm \notin st.visited
        near  == acc <= thr
        cur1  == IF ~fresh THEN cur ELSE IF near THEN Append(cur, nm) ELSE << nm >>
        acc1  == IF fresh /\ ~near THEN 0 ELSE acc
        st1   == IF ~fresh THEN st
                 ELSE [clusters |-> IF ~near /\ cur # << >>
                                    THEN Append(st.clusters, cur) ELSE st.clusters,
                       visited  |-> st.visited \cup {nm}]
    IN TraverseChildren(tree, tree[k].children, cur1, acc1, thr, st1)
TraverseChildren(tree, ks, cur, acc, thr, st) ==
    IF ks = << >> THEN st
    ELSE TraverseChildren(tree, Tail(ks), cur, acc, thr,
            TraverseAndCluster(tree, Head(ks), cur, acc + LengthOr0(tree, Head(ks)), thr, st))

\* initial_cluster after the traversal: the root call appends to it in place
InitialCluster(tree, thr) ==
    IF tree[Root(tree)].name # NoName /\ 0 <= thr
    THEN << tree[Root(tree)].name >> ELSE << >>

\* clusters before the unvisited tips are added, and the unvisited tips
ClustersTraversed(tree, thr) ==
    LET st == TraverseAndCluster(tree, Root(tree), << >>, 0, thr,
                                 [clusters |-> << >>, visited |-> {}])
    IN [clusters |-> IF InitialCluster(tree, thr) # << >>
                     THEN Append(st.clusters, InitialCluster(tree, thr))
                     ELSE st.clusters,
        unvisited |-> { nm \in LeafNames(tree) : nm # NoName } \ st.visited]

\* all orders in which `for tip in all_tips - visited` can run
Orders(S) == { f \in [1..Cardinality(S) -> S] : RangeOf(f) = S }

FindClustersResults(tree, thr) ==
    LET t == ClustersTraversed(tree, thr)
    IN { t.clusters \o [i \in 1..Len(o) |-> << o[i] >>] : o \in Orders(t.unvisited) }

\* ------------------------------------------------------------- inputs
\* off-diagonal distances of the inputs: 0.5 and 1.5
Dists == {48, 144}

UpperPairs(n) == { p \in (1..n) \X (1..n) : p[1] < p[2] }

\* every symmetric n x n matrix with a zero diagonal over Dists
SymMatrices(n) ==
    { [i \in 1..n |-> [j \in 1..n |->
          IF i = j THEN 0 ELSE IF i < j THEN f[<< i, j >>] ELSE f[<< j, i >>]]] :
      f \in [UpperPairs(n) -> Dists] }

\* two families of labels: "A_1", "A_2", "B_3", "B_4", "A_5", ... and
\* "B_1", "2" (no category), "A_3", "A_4", "B_5", ...
LabelAt(u, i) ==
    IF u = 1 THEN << (IF (i - 1) % 4 < 2 THEN "A" ELSE "B"), ToString(i) >>
    ELSE IF i = 2 THEN << ToString(i) >>
    ELSE << (IF i % 4 \in {0, 3} THEN "A" ELSE "B"), ToString(i) >>

Labels(u, n) == [i \in 1..n |-> LabelAt(u, i)]

Input(m, labels) == [m |-> m, labels |-> labels]

\* well-formed inputs of size n
WellFormed(n) == { Input(m, Labels(u, n)) : m \in SymMatrices(n), u \in {1, 2} }

\* well-formed inputs of every size up to MaxN
AllWellFormed == UNION { WellFormed(n) : n \in 0..MaxN }

\* one size larger, labels of one category ("A_1", "A_2", ...): all items at
\* 0.5 of each other, or the first two at 1.5 of the others
Uniform(n) == [i \in 1..n |-> [j \in 1..n |-> IF i = j THEN 0 ELSE 48]]
TwoGroups(n) ==
    [i \in 1..n |-> [j \in 1..n |->
        IF i = j THEN 0 ELSE IF (i <= 2) = (j <= 2) THEN 48 ELSE 144]]
OneCategory(n) == [i \in 1..n |-> << "A", ToString(i) >>]
LargerInputs ==
    { Input(m, OneCategory(MaxN + 1)) : m \in {Uniform(MaxN + 1), TwoGroups(MaxN + 1)} }

\* labels as a caller can send them, with Newick's reserved characters
ReservedLabels == << << "x:1" >>, << "(y)" >>, << "B", "3" >> >>

\* the 3 x 3 matrix with d_12 = 0.5, d_13 = d_23 = 1.5
Base3 == << << 0, 48, 144 >>, << 48, 0, 144 >>, << 144, 144, 0 >> >>

Asymmetric3 == << << 0, 48, 144 >>, << 144, 0, 144 >>, << 144, 144, 0 >> >>
NonHollow3  == << << 0, 48, 144 >>, << 48, 48, 144 >>, << 144, 144, 0 >> >>
NonSquare3  == << << 0, 48, 144, 48 >>, << 48, 0, 144, 48 >>, << 144, 144, 0, 48 >> >>

MalformedInputs ==
    { Input(Asymmetric3, Labels(2, 3)), Input(NonHollow3, Labels(2, 3)),
      Input(NonSquare3, Labels(2, 3)), Input(Base3, Labels(2, 2)),
      Input(Base3, Labels(2, 4)),
      Input(Base3, << LabelAt(2, 1), LabelAt(2, 1), LabelAt(2, 3) >>) }

\* two pairs of near items far from each other
Quartet == << << 0, 48, 144, 144 >>, << 48, 0, 144, 144 >>,
              << 144, 144, 0, 48 >>, << 144, 144, 48, 0 >> >>

\* what the calls of a longer session are given
SessionInputs ==
    MalformedInputs
    \cup { Input(Base3, Labels(u, 3)) : u \in {1, 2} }
    \cup { Input(Base3, ReservedLabels) }
    \cup { Input(Quartet, Labels(u, 4)) : u \in {1, 2} }
    \cup { Input(<< >>, << >>), Input(<< << 0 >> >>, Labels(2, 1)),
           Input(<< << 0, 48 >>, << 48, 0 >> >>, Labels(2, 2)) }

Thresholds == {0, DefaultThreshold, 192}

\* ---------------------------------------------------------- exceptions
NoError == [cls |-> "none", at |-> "none"]
Error(cls, at) == [cls |-> cls, at |-> at]

\* ---------------------------------------------- construct_tree, as a function
\* what construct_tree(m, labels) does: the exception it raises, whether it
\* got as far as `self.labels = labels`, and the tree nj returned
ConstructTreeOutcome(m, labels) ==
    IF Len(labels) # Rows(m)
    THEN [err |-> Error("ValueError", "labels"), stored |-> FALSE, tree |-> NoTree]
    ELSE IF DistanceMatrix(m, labels) # "none"
    THEN [err |-> Error(DistanceMatrix(m, labels), "DistanceMatrix"),
          stored |-> TRUE, tree |-> NoTree]
    ELSE IF Rows(m) < 3
    THEN [err |-> Error("ValueError", "nj"), stored |-> TRUE, tree |-> NoTree]
    ELSE [err |-> NoError, stored |-> TRUE, tree |-> nj(m, labels)]

\* get_tree_statistics of a tree
TreeStatistics(tree) ==
    [num_tips |-> Len(TipsOf(tree, Root(tree))),
     num_internal_nodes |-> Len(NonTipsOf(tree, Root(tree))),
     total_branch_length |-> TotalLength(tree),
     max_distance_to_root |-> MaxTipTipDistance(tree)]

NoStats == [num_tips |-> 0, num_internal_nodes |-> 0,
            total_branch_length |-> 0, max_distance_to_root |-> 0]

\* --------------------------------------------------------------- state
VARIABLES
    njTree,     \* NeighborJoining.tree (NoTree is None)
    njLabels,   \* NeighborJoining.labels (NoLabels is None)
    plMatrix,   \* PhylogeneticPipeline.distance_matrix (NoMatrix is None)
    plLabels,   \* PhylogeneticPipeline.labels
    plAlias,    \* PhylogeneticPipeline.tree is the object NeighborJoining.tree
    plTreeVal,  \* PhylogeneticPipeline.tree when it is an object of its own
    last,       \* the last call made by the sequential caller and its outcome
    calls,      \* number of calls made so far
    appPipeline,\* app.pipeline: 0 is None, else the index of the object in objs
    objs,       \* the NewsPhylogeneticPipeline objects constructed so far
    req,        \* the HTTP requests being served: position, locals, response
    procData,   \* NewsDataProcessor.data (<< >> is None or an empty list)
    procProcessed, \* NewsDataProcessor.processed_data['labels'] (<< >> is None)
    plResults,  \* NewsPhylogeneticPipeline.results (NoResults is None)
    tmpFiles,   \* the temporary files that exist on the disk of the server
    news        \* the last call of the news side and its outcome

vars == << njTree, njLabels, plMatrix, plLabels, plAlias, plTreeVal, last, calls,
           appPipeline, objs, req, procData, procProcessed, plResults, tmpFiles,
           news >>

engine == << njTree, njLabels, plMatrix, plLabels, plAlias, plTreeVal >>
newsSide == << procData, procProcessed, plResults, tmpFiles, news >>
server == << appPipeline, objs, req, newsSide >>

NoLabels == << NoName >>
NoMatrix == << << NoLength >> >>
NoInput == Input(NoMatrix, NoLabels)

\* PhylogeneticPipeline.tree
PlTree == IF plAlias THEN njTree ELSE plTreeVal

\* a JSON response of app.py: only a 200 carries the three result fields
NoResponse == [status |-> 0, error |-> NoError, newick |-> << >>,
               stats |-> NoStats, clusters |-> << >>, fields |-> {}]

ErrorResponse(status, err) == [NoResponse EXCEPT !.status = status, !.error = err]

Success(newick, stats, clusters) ==
    [status |-> 200, error |-> NoError, newick |-> newick, stats |-> stats,
     clusters |-> clusters, fields |-> {"newick", "statistics", "clusters"}]

NoCall == [op |-> "none", input |-> NoInput, thr |-> 0, err |-> NoError,
           tree |-> NoTree, newick |-> << >>, stats |-> NoStats,
           clusters |-> << >>, returned |-> FALSE, response |-> NoResponse,
           again |-> FALSE, labeled |-> FALSE]

\* a call of op; labeled tells whether the nodes of the stored tree have been
\* named since it was built, which only a build or a labeling changes
Call(op) == [NoCall EXCEPT !.op = op, !.labeled = last.labeled]

\* the call before this one labeled the tree (again tells that a call
\* repeats the one before it: a labeling after a labeling, a run_pipeline
\* after a run_pipeline on an equal input)
LabeledJustNow ==
    last.op \in {"name_internal_nodes", "tree_to_newick"} /\ last.returned

NoTreeError == Error("ValueError", "no_tree")
NoTextsError == Error("none", "No texts provided")

InitEngine ==
    /\ njTree = NoTree
    /\ njLabels = NoLabels
    /\ plMatrix = NoMatrix
    /\ plLabels = NoLabels
    /\ plAlias = FALSE
    /\ plTreeVal = NoTree

\* --------------------------------------------- NeighborJoining, one caller
ConstructTree(inp) ==
    LET out == ConstructTreeOutcome(inp.m, inp.labels)
    IN /\ njLabels' = IF out.stored THEN inp.labels ELSE njLabels
       /\ njTree' = IF out.err = NoError THEN out.tree ELSE njTree
       \* the pipeline keeps the tree object it was given
       /\ plAlias' = (plAlias /\ out.err # NoError)
       /\ plTreeVal' = IF plAlias /\ out.err = NoError THEN njTree ELSE plTreeVal
       /\ last' = [Call("construct_tree") EXCEPT !.input = inp, !.err = out.err,
                                                  !.tree = out.tree,
                                                  !.returned = (out.err = NoError),
                                                  !.labeled = (out.err # NoError
                                                               /\ last.labeled)]
       /\ UNCHANGED << plMatrix, plLabels, server >>

NameInternalNodesCall ==
    /\ IF njTree = NoTree
       THEN /\ last' = [Call("name_internal_nodes") EXCEPT !.err = NoTreeError]
            /\ UNCHANGED njTree
       ELSE /\ njTree' = NameInternalNodes(njTree)
            /\ last' = [Call("name_internal_nodes") EXCEPT !.returned = TRUE,
                                                            !.again = LabeledJustNow,
                                                            !.labeled = TRUE]
    /\ UNCHANGED << njLabels, plMatrix, plLabels, plAlias, plTreeVal, server >>

TreeToNewick ==
    /\ IF njTree = NoTree
       THEN /\ last' = [Call("tree_to_newick") EXCEPT !.err = NoTreeError]
            /\ UNCHANGED njTree
       ELSE /\ njTree' = NameInternalNodes(njTree)
            /\ last' = [Call("tree_to_newick") EXCEPT
                            !.newick = Newick(NameInternalNodes(njTree)),
                            !.returned = TRUE, !.again = LabeledJustNow,
                            !.labeled = TRUE]
    /\ UNCHANGED << njLabels, plMatrix, plLabels, plAlias, plTreeVal, server >>

\* (a variant that answers with the statistics of an empty tree when no
\* tree has been built)
GetTreeStatisticsOfNoTree ==
    /\ last' = IF njTree = NoTree
               THEN [Call("get_tree_statistics") EXCEPT !.returned = TRUE]
               ELSE [Call("get_tree_statistics") EXCEPT
                        !.stats = TreeStatistics(njTree), !.returned = TRUE]
    /\ UNCHANGED << engine, server >>

GetTreeStatistics ==
    /\ last' = IF njTree = NoTree
               THEN [Call("get_tree_statistics") EXCEPT !.err = NoTreeError]
               ELSE [Call("get_tree_statistics") EXCEPT
                        !.stats = TreeStatistics(njTree), !.returned = TRUE]
    /\ UNCHANGED << engine, server >>

FindClusters(thr) ==
    /\ IF njTree = NoTree
       THEN last' = [Call("find_clusters") EXCEPT !.thr = thr, !.err = NoTreeError]
       ELSE \E cs \in FindClustersResults(njTree, thr) :
               last' = [Call("find_clusters") EXCEPT !.thr = thr, !.clusters = cs,
                                                      !.returned = TRUE]
    /\ UNCHANGED << engine, server >>

\* ------------------------------------ PhylogeneticPipeline.run_pipeline
\* What the whole call does to the objects for one caller, res being its
\* outcome: the fields are stored, construct_tree stores the labels once the
\* count is checked, and a tree built is kept, named by tree_to_newick.
RunPipelineDoes(inp, res) ==
    /\ plMatrix' = inp.m
    /\ plLabels' = inp.labels
    /\ njLabels' = IF Len(inp.labels) = Rows(inp.m) THEN inp.labels ELSE njLabels
    /\ IF res.returned
       THEN /\ njTree' = res.tree
            /\ plAlias' = TRUE
            /\ plTreeVal' = NoTree
       ELSE UNCHANGED << njTree, plAlias, plTreeVal >>

\* (a variant that catches the exception of construct_tree and returns the
\* results it has, which are empty)
OutcomesOfRunPipelineSwallowingErrors(inp) ==
    LET out   == ConstructTreeOutcome(inp.m, inp.labels)
        named == NameInternalNodes(out.tree)
    IN IF out.err # NoError
       THEN { [NoCall EXCEPT !.input = inp, !.returned = TRUE] }
       ELSE { [NoCall EXCEPT !.input = inp, !.tree = named,
                             !.newick = Newick(named),
                             !.stats = TreeStatistics(named),
                             !.clusters = cs, !.returned = TRUE] :
              cs \in FindClustersResults(named, DefaultThreshold) }

\* the outcomes the call can have: the exception of construct_tree, or the
\* results computed from the tree once tree_to_newick has named its nodes
OutcomesOfRunPipeline(inp) ==
    LET out   == ConstructTreeOutcome(inp.m, inp.labels)
        named == NameInternalNodes(out.tree)
    IN IF out.err # NoError
       THEN { [NoCall EXCEPT !.input = inp, !.err = out.err] }
       ELSE { [NoCall EXCEPT !.input = inp, !.tree = named,
                             !.newick = Newick(named),
                             !.stats = TreeStatistics(named),
                             !.clusters = cs, !.returned = TRUE] :
              cs \in FindClustersResults(named, DefaultThreshold) }

RunPipeline(inp) ==
    /\ \E res \in OutcomesOfRunPipeline(inp) :
          /\ RunPipelineDoes(inp, res)
          /\ last' = [res EXCEPT !.op = "run_pipeline",
                                 !.again = (last.op = "run_pipeline" /\ last.input = inp),
                                 !.labeled = (res.returned \/ last.labeled)]
    /\ UNCHANGED server

\* ------------------------------------------------ app.process_text_input
\* labels = [f"Text_{i:03d}" for i in range(len(texts))]
Pad3(i) == IF i < 10 THEN "00" \o ToString(i)
           ELSE IF i < 100 THEN "0" \o ToString(i) ELSE ToString(i)

DefaultLabels(n) == [i \in 1..n |-> << "Text", Pad3(i - 1) >>]

\* The request's texts are known by the distance matrix computed from their
\* embeddings; absent or empty labels are <<>>.
RequestLabels(inp) ==
    IF inp.labels = << >> THEN DefaultLabels(Rows(inp.m)) ELSE inp.labels

EngineInput(inp) == Input(inp.m, RequestLabels(inp))

\* the response made from what run_pipeline did
ResponseOf(res) ==
    IF res.returned THEN Success(res.newick, res.stats, res.clusters)
    ELSE ErrorResponse(500, res.err)

\* the whole handler, one request at a time
ProcessTextInput(inp) ==
    /\ IF Rows(inp.m) = 0
       THEN /\ last' = [Call("process_text_input") EXCEPT
                           !.input = inp, !.response = ErrorResponse(400, NoTextsError)]
            /\ UNCHANGED engine
       ELSE \E res \in OutcomesOfRunPipeline(EngineInput(inp)) :
               /\ RunPipelineDoes(EngineInput(inp), res)
               /\ last' = [res EXCEPT !.op = "process_text_input", !.input = inp,
                                      !.response = ResponseOf(res),
                                      !.labeled = (res.returned \/ last.labeled)]
    /\ UNCHANGED server

\* what a request can carry: a square matrix with a zero diagonal (the
\* embedding model's compute_distance_matrix) and any labels
RequestInputs ==
    { Input(Base3, Labels(1, 3)), Input(Quartet, Labels(2, 4)),
      Input(Quartet, << >>), Input(Base3, Labels(2, 2)),
      Input(Base3, ReservedLabels),
      Input(Asymmetric3, Labels(2, 3)),
      Input(<< << 0, 48 >>, << 48, 0 >> >>, Labels(2, 2)), Input(<< >>, << >>) }

\* ------------------------------------------------- NewsDataProcessor
\* A string of an article is the sequence of its characters.  An article is
\* known by the fields it has and by its category and headline.
HeadlineLimit == 50

Article(fields, category, headline) ==
    [fields |-> fields, category |-> category, headline |-> headline]

Repeat(c, n) == [i \in 1..n |-> c]

RECURSIVE Digits(_)
Digits(i) == IF i < 10 THEN << ToString(i) >>
             ELSE Digits(i \div 10) \o << ToString(i % 10) >>

\* f"{idx:03d}"
Format03d(idx) == Repeat("0", 3 - Len(Digits(idx))) \o Digits(idx)

\* headline[:50], then "..." if the headline is longer
TruncatedHeadline(headline) ==
    IF Len(headline) > HeadlineLimit
    THEN SubSeq(headline, 1, HeadlineLimit) \o << ".", ".", "." >>
    ELSE headline

\* article.get('category', 'Unknown')
CategoryOrUnknown(article) ==
    IF "category" \in article.fields THEN article.category
    ELSE << "U", "n", "k", "n", "o", "w", "n" >>

\* lines 123-130
RawLabel(article, idx) ==
    IF "headline" \in article.fields
    THEN CategoryOrUnknown(article) \o << "_" >> \o Format03d(idx) \o << "_" >>
         \o TruncatedHeadline(article.headline)
    ELSE << "A", "r", "t", "i", "c", "l", "e", "_" >> \o Format03d(idx)

\* str.replace(c, to) for every c of from, and str.replace(c, '')
ReplaceChars(s, from, to) == [i \in 1..Len(s) |-> IF s[i] \in from THEN to ELSE s[i]]
RemoveChars(s, gone) == SelectSeq(s, LAMBDA c : c \notin gone)

\* lines 133-135
CleanLabel(label) ==
    ReplaceChars(
        RemoveChars(ReplaceChars(label, {":", ";", "(", ")", ",", "[", "]"}, "_"),
                    {"'", "\""}),
        {" "}, "_")

\* the labels of prepare_texts_for_embedding, idx counting from 0
PrepareLabels(data) ==
    [i \in 1..Len(data) |-> CleanLabel(RawLabel(data[i], i - 1))]

\* label.split('_'): the pieces of a label, each a string
RECURSIVE SplitFrom(_, _, _, _)
SplitFrom(s, i, piece, pieces) ==
    IF i > Len(s) THEN Append(pieces, piece)
    ELSE IF s[i] = "_" THEN SplitFrom(s, i + 1, "", Append(pieces, piece))
    ELSE SplitFrom(s, i + 1, piece \o s[i], pieces)

SplitLabel(label) == SplitFrom(label, 1, "", << >>)

\* the articles of the model: a headline that begins like an index, a
\* category that ends like one, characters that are replaced or removed, a
\* missing category, a missing headline, a headline over the limit
Articles ==
    { Article({"category", "headline"}, << "A" >>, << "0", "0", "1", "_", "x" >>),
      Article({"category", "headline"}, << "A", "_", "0", "0", "0" >>, << "x" >>),
      Article({"category", "headline"}, << "A", " ", "B" >>, << "(", "y", ")" >>),
      Article({"headline"}, << >>, << "i", "t", "'", "s" >>),
      Article({"category"}, << "B" >>, << >>),
      Article({"category", "headline"}, << "B", ":", "1" >>,
              Repeat("h", HeadlineLimit + 1)) }

ArticleLists(n) == [1..n -> Articles]

\* a dataset file: the lines of a readable one parse to a list of articles
NoFile == [readable |-> FALSE, articles |-> << >>]
DatasetFile(readable, articles) == [readable |-> readable, articles |-> articles]
DatasetFiles ==
    { DatasetFile(FALSE, << >>) }
    \cup UNION { { DatasetFile(TRUE, a) : a \in ArticleLists(n) } : n \in 0..MaxArticles }

NoResults == [newick |-> << >>, stats |-> NoStats, clusters |-> << >>,
              labels |-> << >>, num_articles |-> 0]

NoNewsResponse == [status |-> 0, error |-> NoError, fields |-> {},
                   data |-> << >>, statistics |-> NoStats]

NoUpload == [filename |-> << >>, file |-> NoFile]

NoNewsCall == [op |-> "none", upload |-> NoUpload, err |-> NoError,
               labels |-> << >>, returned |-> FALSE, created |-> 0,
               response |-> NoNewsResponse]

NoDataError == Error("ValueError", "no_data")
UnreadableError == Error("JSONDecodeError", "load_dataset")

InitNews ==
    /\ procData = << >>
    /\ procProcessed = << >>
    /\ plResults = NoResults
    /\ tmpFiles = {}
    /\ news = NoNewsCall

\* load_dataset: the lists of the model are shorter than any sample size, so
\* every article read is kept
LoadDataset(file) ==
    /\ procData' = IF file.readable THEN file.articles ELSE procData
    /\ news' = [NoNewsCall EXCEPT
                   !.op = "load_dataset", !.upload = [NoUpload EXCEPT !.file = file],
                   !.err = IF file.readable THEN NoError ELSE UnreadableError,
                   !.returned = file.readable]
    /\ UNCHANGED << engine, last, appPipeline, objs, req, procProcessed, plResults,
                    tmpFiles >>

PrepareTextsForEmbedding ==
    /\ IF procData = << >>
       THEN /\ news' = [NoNewsCall EXCEPT !.op = "prepare_texts_for_embedding",
                                           !.err = NoDataError]
            /\ UNCHANGED procProcessed
       ELSE /\ procProcessed' = PrepareLabels(procData)
            /\ news' = [NoNewsCall EXCEPT !.op = "prepare_texts_for_embedding",
                                           !.labels = PrepareLabels(procData),
                                           !.returned = TRUE]
    /\ UNCHANGED << engine, last, appPipeline, objs, req, procData, plResults,
                    tmpFiles >>

\* ------------------------- NewsPhylogeneticPipeline.process_news_dataset
\* the distance matrices compute_distance_matrix can return for n texts
EmbeddingMatrices(n) == {Uniform(n), TwoGroups(n)}

\* the labels as the tree builder reads them
EngineLabels(labels) == [i \in 1..Len(labels) |-> SplitLabel(labels[i])]

\* How far the call gets on a dataset file and what run_pipeline does, m
\* being the matrix of the embeddings: load_dataset raises on a file it
\* cannot read, prepare_texts_for_embedding on an empty list.
OutcomesOfProcessNewsDataset(file) ==
    IF ~file.readable
    THEN { [loaded |-> FALSE, prepared |-> FALSE, ran |-> FALSE,
            res |-> [NoCall EXCEPT !.err = UnreadableError]] }
    ELSE IF file.articles = << >>
    THEN { [loaded |-> TRUE, prepared |-> FALSE, ran |-> FALSE,
            res |-> [NoCall EXCEPT !.err = NoDataError]] }
    ELSE UNION { { [loaded |-> TRUE, prepared |-> TRUE, ran |-> TRUE, res |-> res] :
                   res \in OutcomesOfRunPipeline(
                               Input(m, EngineLabels(PrepareLabels(file.articles)))) } :
                 m \in EmbeddingMatrices(Len(file.articles)) }

\* what the call does to the objects of the pipeline, out being its outcome
ProcessNewsDatasetDoes(file, out) ==
    /\ procData' = IF out.loaded THEN file.articles ELSE procData
    /\ procProcessed' = IF out.prepared THEN PrepareLabels(file.articles)
                        ELSE procProcessed
    /\ IF out.ran THEN RunPipelineDoes(out.res.input, out.res) ELSE UNCHANGED engine
    /\ plResults' = IF out.res.returned
                    THEN [newick |-> out.res.newick, stats |-> out.res.stats,
                          clusters |-> out.res.clusters,
                          labels |-> PrepareLabels(file.articles),
                          num_articles |-> Len(file.articles)]
                    ELSE plResults

\* generate_visualization_data: phyloNewickData, and the words of
\* wordcloudData with their counts
WordFreq(labels) ==
    LET words == { SplitLabel(labels[i])[1] : i \in 1..Len(labels) }
    IN [w \in words |-> Cardinality({ i \in 1..Len(labels) : SplitLabel(labels[i])[1] = w })]

GenerateVisualizationData(results) ==
    [phyloNewickData |-> results.newick, wordcloudData |-> WordFreq(results.labels)]

\* ------------------------------------------- app.process_news_dataset
ALLOWED_EXTENSIONS == {"json", "txt"}

Lower(ext) == IF ext = "JSON" THEN "json" ELSE IF ext = "TXT" THEN "txt" ELSE ext

\* a file name is the sequence of its parts between dots
AllowedFile(filename) ==
    Len(filename) > 1 /\ Lower(filename[Len(filename)]) \in ALLOWED_EXTENSIONS

\* the name of a temporary file nothing else has
NewTmp == Cardinality(tmpFiles) + 1

\* The whole handler, one request at a time.  A request without a file names
\* the dataset in its JSON body; up.file is then the file at that path.
ProcessNewsDatasetRequest(up) ==
    LET uploaded == up.filename # << >>
        tmp      == NewTmp
        call     == [NoNewsCall EXCEPT !.op = "process_news_dataset", !.upload = up]
    IN /\ IF uploaded /\ ~AllowedFile(up.filename)
          THEN /\ news' = [call EXCEPT !.response =
                              [NoNewsResponse EXCEPT
                                  !.status = 400,
                                  !.error = Error("none", "Invalid file format")]]
               /\ UNCHANGED << engine, procData, procProcessed, plResults, tmpFiles >>
          ELSE \E out \in OutcomesOfProcessNewsDataset(up.file) :
                  /\ ProcessNewsDatasetDoes(up.file, out)
                  \* line 70 creates the file, line 98 removes it
                  /\ tmpFiles' = IF ~uploaded THEN tmpFiles
                                 ELSE IF out.res.returned
                                 THEN (tmpFiles \cup {tmp}) \ {tmp}
                                 ELSE tmpFiles \cup {tmp}
                  /\ news' = [call EXCEPT
                        !.created = IF uploaded THEN tmp ELSE 0,
                        !.err = out.res.err,
                        !.returned = out.res.returned,
                        !.labels = IF out.prepared THEN PrepareLabels(up.file.articles)
                                   ELSE << >>,
                        !.response =
                            IF out.res.returned
                            THEN [status |-> 200, error |-> NoError,
                                  fields |-> {"success", "data", "statistics"},
                                  data |-> GenerateVisualizationData(plResults'),
                                  statistics |-> out.res.stats]
                            ELSE [NoNewsResponse EXCEPT !.status = 500,
                                                        !.error = out.res.err]]
    /\ UNCHANGED << last, appPipeline, objs, req >>

Filenames == { << >>, << "news", "json" >>, << "news", "JSON" >>, << "news", "exe" >>,
               << "news" >> }

Uploads == { [filename |-> f, file |-> d] : f \in Filenames, d \in DatasetFiles }

Init ==
    /\ InitEngine
    /\ InitNews
    /\ appPipeline = 0
    /\ objs = << >>
    /\ req = << >>
    /\ last = NoCall
    /\ calls = 0

\* a session: up to MaxCalls calls on one instance
Counted == calls < MaxCalls /\ calls' = calls + 1

Next ==
    \/ \E inp \in SessionInputs : Counted /\ ConstructTree(inp)
    \/ Counted /\ NameInternalNodesCall
    \/ Counted /\ TreeToNewick
    \/ Counted /\ GetTreeStatistics
    \/ \E thr \in Thresholds : Counted /\ FindClusters(thr)
    \/ \E inp \in SessionInputs : Counted /\ RunPipeline(inp)
    \/ \E inp \in RequestInputs : Counted /\ ProcessTextInput(inp)

Spec == Init /\ [][Next]_vars

\* one build of any input on a fresh instance, then any number of calls
\* that use the tree
First == calls = 0 /\ calls' = 1
After == calls = 1 /\ UNCHANGED calls

NextOneBuild ==
    \/ \E inp \in AllWellFormed \cup MalformedInputs \cup LargerInputs
                    \cup {Input(Base3, ReservedLabels)} : First /\ ConstructTree(inp)
    \/ After /\ NameInternalNodesCall
    \/ After /\ TreeToNewick
    \/ After /\ GetTreeStatistics
    \/ \E thr \in Thresholds : After /\ FindClusters(thr)

SpecOneBuild == Init /\ [][NextOneBuild]_vars

Anytime == calls <= 1 /\ calls' = 1

\* the news side: a dataset loaded and prepared, or a request served
NextNews ==
    \/ \E file \in DatasetFiles : First /\ LoadDataset(file)
    \/ Anytime /\ PrepareTextsForEmbedding
    \/ \E up \in Uploads : First /\ ProcessNewsDatasetRequest(up)

SpecNews == Init /\ [][NextNews]_vars

\* ------------------------------------------- app.py, concurrent requests
\* Two /api/process-text requests served by threads of one process.  A step
\* is a statement (or a call that touches no shared object); the objects of
\* a NewsPhylogeneticPipeline are shared by the requests that hold it.
Requests == {1, 2}

NewEngine == [njTree |-> NoTree, njLabels |-> NoLabels, plMatrix |-> NoMatrix,
              plLabels |-> NoLabels, plAlias |-> FALSE, plTreeVal |-> NoTree]

IdleRequest == [pc |-> "idle", input |-> NoInput, labels |-> NoLabels, pipe |-> 0,
                err |-> NoError, newick |-> << >>, stats |-> NoStats,
                clusters |-> << >>, response |-> NoResponse]

Sequential == << engine, last, calls, newsSide >>

\* lines 117-126: the request is read, labels default to Text_000, ...
Receive(r, inp) ==
    /\ req[r].pc = "idle"
    /\ req' = [req EXCEPT ![r] =
                  IF Rows(inp.m) = 0
                  THEN [@ EXCEPT !.pc = "done", !.input = inp,
                                 !.response = ErrorResponse(400, NoTextsError)]
                  ELSE [@ EXCEPT !.pc = "gp37", !.input = inp,
                                 !.labels = RequestLabels(inp)]]
    /\ UNCHANGED << appPipeline, objs, Sequential >>

\* get_pipeline, line 37: if pipeline is None
GetPipelineTest(r) ==
    /\ req[r].pc = "gp37"
    /\ req' = [req EXCEPT ![r].pc = IF appPipeline = 0 THEN "gp39" ELSE "gp41"]
    /\ UNCHANGED << appPipeline, objs, Sequential >>

\* line 39: pipeline = NewsPhylogeneticPipeline()
GetPipelineCreate(r) ==
    /\ req[r].pc = "gp39"
    /\ objs' = Append(objs, NewEngine)
    /\ appPipeline' = Len(objs) + 1
    /\ req' = [req EXCEPT ![r].pc = "gp41"]
    /\ UNCHANGED Sequential

\* line 41: return pipeline
GetPipelineReturn(r) ==
    /\ req[r].pc = "gp41"
    /\ req' = [req EXCEPT ![r].pc = "rp238", ![r].pipe = appPipeline]
    /\ UNCHANGED << appPipeline, objs, Sequential >>

\* run_pipeline, lines 238-239
StoreInputs(r) ==
    /\ req[r].pc = "rp238"
    /\ objs' = [objs EXCEPT ![req[r].pipe].plMatrix = req[r].input.m,
                            ![req[r].pipe].plLabels = req[r].labels]
    /\ req' = [req EXCEPT ![r].pc = "ct35"]
    /\ UNCHANGED << appPipeline, Sequential >>

\* construct_tree, lines 35-38
CheckLabels(r) ==
    LET out == ConstructTreeOutcome(req[r].input.m, req[r].labels)
    IN /\ req[r].pc = "ct35"
       /\ IF out.err.at = "labels"
          THEN /\ req' = [req EXCEPT ![r].pc = "fail", ![r].err = out.err]
               /\ UNCHANGED objs
          ELSE /\ req' = [req EXCEPT ![r].pc = "ct41"]
               /\ objs' = [objs EXCEPT ![req[r].pipe].njLabels = req[r].labels]
       /\ UNCHANGED << appPipeline, Sequential >>

\* construct_tree, lines 41-45
BuildTree(r) ==
    LET out == ConstructTreeOutcome(req[r].input.m, req[r].labels)
        obj == objs[req[r].pipe]
    IN /\ req[r].pc = "ct41"
       /\ IF out.err # NoError
          THEN /\ req' = [req EXCEPT ![r].pc = "fail", ![r].err = out.err]
               /\ UNCHANGED objs
          ELSE /\ req' = [req EXCEPT ![r].pc = "ct51"]
               /\ objs' = [objs EXCEPT ![req[r].pipe] =
                             [obj EXCEPT !.njTree = out.tree,
                                         !.plAlias = FALSE,
                                         !.plTreeVal = IF obj.plAlias THEN obj.njTree
                                                       ELSE obj.plTreeVal]]
       /\ UNCHANGED << appPipeline, Sequential >>

\* construct_tree line 51 and run_pipeline line 242:
\* self.tree = (return self.tree)
ReturnTree(r) ==
    /\ req[r].pc = "ct51"
    /\ objs' = [objs EXCEPT ![req[r].pipe].plAlias = TRUE,
                            ![req[r].pipe].plTreeVal = NoTree]
    /\ req' = [req EXCEPT ![r].pc = "rp245"]
    /\ UNCHANGED << appPipeline, Sequential >>

\* line 245: newick = self.nj.tree_to_newick()
Serialize(r) ==
    LET named == NameInternalNodes(objs[req[r].pipe].njTree)
    IN /\ req[r].pc = "rp245"
       /\ objs' = [objs EXCEPT ![req[r].pipe].njTree = named]
       /\ req' = [req EXCEPT ![r].pc = "rp248", ![r].newick = Newick(named)]
       /\ UNCHANGED << appPipeline, Sequential >>

\* line 248: stats = self.nj.get_tree_statistics()
Statistics(r) ==
    /\ req[r].pc = "rp248"
    /\ req' = [req EXCEPT ![r].pc = "rp251",
                          ![r].stats = TreeStatistics(objs[req[r].pipe].njTree)]
    /\ UNCHANGED << appPipeline, objs, Sequential >>

\* line 251: clusters = self.nj.find_clusters()
Clusters(r) ==
    /\ req[r].pc = "rp251"
    /\ \E cs \in FindClustersResults(objs[req[r].pipe].njTree, DefaultThreshold) :
          req' = [req EXCEPT ![r].pc = "rp253", ![r].clusters = cs]
    /\ UNCHANGED << appPipeline, objs, Sequential >>

\* lines 253-260 and 141-146: the results are returned and sent
Respond(r) ==
    /\ req[r].pc = "rp253"
    /\ req' = [req EXCEPT ![r].pc = "done",
                          ![r].response = Success(req[r].newick, req[r].stats,
                                                  req[r].clusters)]
    /\ UNCHANGED << appPipeline, objs, Sequential >>

\* lines 148-150: except Exception
Fail(r) ==
    /\ req[r].pc = "fail"
    /\ req' = [req EXCEPT ![r].pc = "done",
                          ![r].response = ErrorResponse(500, req[r].err)]
    /\ UNCHANGED << appPipeline, objs, Sequential >>

InitConc ==
    /\ InitEngine
    /\ InitNews
    /\ last = NoCall
    /\ calls = 0
    /\ appPipeline = 0
    /\ objs = << >>
    /\ req = [r \in Requests |-> IdleRequest]

NextConc ==
    \E r \in Requests :
        \/ \E inp \in RequestInputs : Receive(r, inp)
        \/ GetPipelineTest(r)
        \/ GetPipelineCreate(r)
        \/ GetPipelineReturn(r)
        \/ StoreInputs(r)
        \/ CheckLabels(r)
        \/ BuildTree(r)
        \/ ReturnTree(r)
        \/ Serialize(r)
        \/ Statistics(r)
        \/ Clusters(r)
        \/ Respond(r)
        \/ Fail(r)

SpecConc == InitConc /\ [][NextConc]_vars

\* ------------------------------------------------------------ properties
\* what the input of a build is, read off the input alone
IsSquare(m) == \A i \in 1..Len(m) : Len(m[i]) = Len(m)
IsSymmetric(m) == \A i, j \in 1..Len(m) : m[i][j] = m[j][i]
HasZeroDiagonal(m) == \A i \in 1..Len(m) : m[i][i] = 0
LabelsMatch(inp) == Len(inp.labels) = Len(inp.m)
LabelsDistinct(inp) == Cardinality(RangeOf(inp.labels)) = Len(inp.labels)

ValidInput(inp) ==
    /\ IsSquare(inp.m) /\ IsSymmetric(inp.m) /\ HasZeroDiagonal(inp.m)
    /\ LabelsMatch(inp) /\ LabelsDistinct(inp)

MalformedInput(inp) ==
    \/ ~IsSquare(inp.m)
    \/ IsSquare(inp.m) /\ ~IsSymmetric(inp.m)
    \/ IsSquare(inp.m) /\ ~HasZeroDiagonal(inp.m)
    \/ ~LabelsMatch(inp)

\* the exception comes from the checks of the input (line 36, or the
\* DistanceMatrix constructor of line 41), or from nj's size check
IsValidationError(e) == e.at \in {"labels", "DistanceMatrix"}
IsInsufficientDataError(e) == e.at = "nj"

InternalNodes(tree) == { k \in 1..Len(tree) : tree[k].children # << >> }
TipNodes(tree) == { k \in 1..Len(tree) : tree[k].children = << >> }

\* C1: construct_tree on a valid input of n >= 3 labels returns a tree with
\* exactly n leaves, the leaf names in one-to-one correspondence with the
\* labels, and exactly n - 2 internal nodes, the root among them.
C1_TreeOfValidInput ==
    (last.op = "construct_tree" /\ ValidInput(last.input)
        /\ Len(last.input.labels) >= 3)
    => /\ last.returned /\ last.err = NoError
       /\ njTree = last.tree
       /\ LET t == last.tree
              n == Len(last.input.labels)
              tips == TipsOf(t, Root(t))
          IN /\ Len(tips) = n
             /\ Cardinality(RangeOf(tips)) = n
             /\ { t[k].name : k \in RangeOf(tips) } = RangeOf(last.input.labels)
             /\ Len(Postorder(t, Root(t))) = Len(t)
             /\ Cardinality(InternalNodes(t)) = n - 2
             /\ Root(t) \in InternalNodes(t)

C1_Witness ==
    /\ last.op = "construct_tree" /\ last.returned
    /\ ValidInput(last.input)
    /\ Len(last.input.labels) = 4
    /\ Cardinality(TipNodes(njTree)) = 4

\* C2: on a built and labeled tree find_clusters returns clusters in which
\* every leaf name of the tree appears exactly once.
C2_ClustersPartitionLeaves ==
    (last.op = "find_clusters" /\ last.returned
        /\ njTree = NameInternalNodes(njTree))
    => \A nm \in LeafNames(njTree) :
          SumSeq([i \in 1..Len(last.clusters) |-> Count(last.clusters[i], nm)]) = 1

\* C3: two requests served concurrently by the process-wide pipeline object
\* each get the Newick string, statistics and clusters computed from their
\* own input.
C3_OwnResults ==
    \A r \in Requests :
        (/\ req[r].response.status = 200
         /\ \A s \in Requests : req[s].pipe \in {0, req[r].pipe})
        => \E res \in OutcomesOfRunPipeline(EngineInput(req[r].input)) :
              /\ res.returned
              /\ req[r].response.newick = res.newick
              /\ req[r].response.stats = res.stats
              /\ req[r].response.clusters = res.clusters

\* C4: construct_tree on a non-square or asymmetric matrix, a non-zero
\* diagonal or a label count different from the matrix size raises an
\* exception of the input checks and builds no tree.
C4_MalformedRejected ==
    [][ (calls' # calls /\ last'.op = "construct_tree"
            /\ MalformedInput(last'.input))
        => /\ IsValidationError(last'.err)
           /\ ~last'.returned
           /\ last'.tree = NoTree
           /\ njTree' = njTree
           /\ PlTree' = PlTree ]_vars

C4_Witness ==
    /\ last.op = "construct_tree"
    /\ IsSquare(last.input.m) /\ ~IsSymmetric(last.input.m)
    /\ LabelsMatch(last.input)
    /\ last.err # NoError
    /\ njTree # NoTree

\* C5: construct_tree on an otherwise valid input of fewer than 3 items
\* raises the error of nj's size check, not an error of the input checks,
\* and builds no tree.
C5_TooFewIsInsufficientData ==
    (last.op = "construct_tree" /\ ValidInput(last.input)
        /\ Len(last.input.labels) < 3)
    => /\ IsInsufficientDataError(last.err)
       /\ ~IsValidationError(last.err)
       /\ last.tree = NoTree

\* C6: run_pipeline returns a result only if every step succeeded; when a
\* step fails the error propagates, nothing is returned, and the HTTP layer
\* answers with an error status and none of the result fields.
C6_NoPartialResult ==
    /\ last.op \in {"run_pipeline", "process_text_input"}
       => /\ last.returned <=> last.err = NoError /\ last.newick # << >>
          /\ last.returned
             => /\ ValidInput(IF last.op = "run_pipeline" THEN last.input
                              ELSE EngineInput(last.input))
                /\ Len(last.input.m) >= 3
                /\ last.tree # NoTree
                /\ last.stats.num_tips = Len(last.input.m)
                /\ last.response.status \in {0, 200}
          /\ ~last.returned
             => /\ last.tree = NoTree /\ last.newick = << >>
                /\ last.stats = NoStats /\ last.clusters = << >>
                /\ last.response.status # 200
    /\ last.op = "process_text_input"
       => /\ last.response.status \in {200, 400, 500}
          /\ last.response.status = 200
             => /\ last.returned
                /\ last.response.fields = {"newick", "statistics", "clusters"}
                /\ last.response.newick = last.newick
                /\ last.response.stats = last.stats
                /\ last.response.clusters = last.clusters
          /\ last.response.status # 200
             => /\ last.response.fields = {}
                /\ last.response.newick = << >>
                /\ last.response.stats = NoStats
                /\ last.response.clusters = << >>
                /\ last.response.error # NoError

C6_Witness ==
    /\ last.op = "process_text_input"
    /\ Len(last.input.m) >= 3
    /\ last.err # NoError
    /\ last.response.status = 500
    /\ last.response.fields = {}

\* C7: a failed construct_tree or run_pipeline leaves the stored tree and
\* the stored labels as they were before the call.
C7_FailureChangesNothing ==
    [][ (calls' # calls /\ last'.op \in {"construct_tree", "run_pipeline"}
            /\ last'.err # NoError)
        => /\ njTree' = njTree
           /\ njLabels' = njLabels
           /\ PlTree' = PlTree
           /\ plMatrix' = plMatrix
           /\ plLabels' = plLabels ]_vars

\* C8: labeling an already labeled tree again leaves every node name as it
\* is, and two successive tree_to_newick calls return the same string.
C8_LabelingIdempotent ==
    [][ (LabeledJustNow /\ last' # last
            /\ last'.op \in {"name_internal_nodes", "tree_to_newick"})
        => /\ last'.returned /\ last'.again
           /\ njTree' = njTree
           /\ (last.op = "tree_to_newick" /\ last'.op = "tree_to_newick")
              => last'.newick = last.newick ]_vars

C8_Witness ==
    /\ last.op = "tree_to_newick" /\ last.again
    /\ \E k, l \in InternalNodes(njTree) :
          /\ k # l
          /\ njTree[k].name # NoName
          /\ njTree[l].name = Append(njTree[k].name, "2")

\* C9: get_tree_statistics of a tree built from n labels reports
\* num_tips = n and num_internal_nodes = n - 2.
C9_Counts ==
    (last.op = "get_tree_statistics" /\ last.returned)
    => /\ last.stats.num_tips = Len(njLabels)
       /\ last.stats.num_internal_nodes = Len(njLabels) - 2

\* C10: total_branch_length is the sum of the branch lengths of all the
\* nodes but the root, which has none.
C10_TotalBranchLength ==
    (last.op = "get_tree_statistics" /\ last.returned)
    => /\ njTree[Root(njTree)].length = NoLength
       /\ \A k \in 1..Len(njTree) : k # Root(njTree) => njTree[k].length >= 0
       /\ last.stats.total_branch_length
            = SumSeq([k \in 1..Len(njTree) |->
                        IF k = Root(njTree) THEN 0 ELSE njTree[k].length])

C10_Witness ==
    /\ last.op = "get_tree_statistics" /\ last.returned
    /\ Cardinality(TipNodes(njTree)) = 4
    /\ \E k \in InternalNodes(njTree) : k # Root(njTree) /\ njTree[k].length > 0
    /\ last.stats.total_branch_length > 0

\* the neighbours of node k in the tree seen as an undirected graph
Neighbours(tree, k) ==
    RangeOf(tree[k].children)
    \cup { p \in 1..Len(tree) : k \in RangeOf(tree[p].children) }

\* the length of the edge between two neighbours: the length of the child
EdgeLength(tree, a, b) ==
    IF b \in RangeOf(tree[a].children) THEN tree[b].length ELSE tree[a].length

\* the sum of the edge lengths on the path from k to target that does not go
\* back through prev; NoLength when target is not on that side
RECURSIVE WalkTo(_, _, _, _)
WalkTo(tree, k, prev, target) ==
    IF k = target THEN 0
    ELSE LET found == { n \in Neighbours(tree, k) \ {prev} :
                          WalkTo(tree, n, k, target) # NoLength }
         IN IF found = {} THEN NoLength
            ELSE LET n == CHOOSE x \in found : TRUE
                 IN EdgeLength(tree, k, n) + WalkTo(tree, n, k, target)

PathDistance(tree, a, b) == WalkTo(tree, a, 0, b)

LeafPairs(tree) == { p \in TipNodes(tree) \X TipNodes(tree) : p[1] < p[2] }

\* C11: the statistic max_distance_to_root is the largest, over the pairs of
\* distinct leaves, of the sum of the branch lengths on the path between the
\* two leaves; it is not a distance from a leaf to the root.
C11_MaxTipDistance ==
    (last.op = "get_tree_statistics" /\ last.returned)
    => /\ \E p \in LeafPairs(njTree) :
             last.stats.max_distance_to_root = PathDistance(njTree, p[1], p[2])
       /\ \A p \in LeafPairs(njTree) :
             PathDistance(njTree, p[1], p[2]) <= last.stats.max_distance_to_root

C11_Witness ==
    /\ last.op = "get_tree_statistics" /\ last.returned
    /\ Cardinality(TipNodes(njTree)) = 4
    /\ \A a \in TipNodes(njTree) :
          PathDistance(njTree, a, Root(njTree)) < last.stats.max_distance_to_root
    /\ \E p \in LeafPairs(njTree) :
          0 < PathDistance(njTree, p[1], p[2])
          /\ PathDistance(njTree, p[1], p[2]) < last.stats.max_distance_to_root

\* the leaf lengths of a 3-leaf tree add up to the input distance
SumsToDistance(tree, m, a, b) == tree[a].length + tree[b].length = m[a][b]

TriangleInequality(m) ==
    \A a, b, c \in 1..Len(m) : m[a][b] <= m[a][c] + m[c][b]

NearPairs(m, a, b, c, d) ==
    /\ {a, b, c, d} = 1..4
    /\ \A x \in {a, b}, y \in {c, d} :
          3 * m[a][b] <= m[x][y] /\ 3 * m[c][d] <= m[x][y]

\* C13: for four items A, B, C, D with d(A,B) and d(C,D) much smaller than
\* the four cross distances, the tree separates {A,B} from {C,D}: one of
\* the pairs hangs alone under an internal node and the other pair is on the
\* other side of that node's parent edge, whatever the positions of the four
\* items in the input.
C13_QuartetTopology ==
    (last.op = "construct_tree" /\ ValidInput(last.input)
        /\ Len(last.input.m) = 4)
    => \A a, b, c, d \in 1..4 :
          NearPairs(last.input.m, a, b, c, d)
          => \E k \in InternalNodes(last.tree) \ {Root(last.tree)} :
                /\ RangeOf(last.tree[k].children) \in {{a, b}, {c, d}}
                /\ (1..4) \ RangeOf(last.tree[k].children)
                      \subseteq RangeOf(last.tree[Parent(last.tree, k)].children)

C13_Witness ==
    /\ last.op = "construct_tree" /\ last.returned
    /\ Len(last.input.m) = 4
    /\ NearPairs(last.input.m, 1, 3, 2, 4)
    /\ \E k \in InternalNodes(last.tree) \ {Root(last.tree)} :
          RangeOf(last.tree[k].children) \in {{1, 3}, {2, 4}}

\* C14: two runs of run_pipeline on equal distance matrices and equal label
\* lists, one after the other on the same object, return the same Newick
\* string, the same statistics and the same clusters in the same order.
C14_Deterministic ==
    [][ (calls' # calls /\ last.op = "run_pipeline" /\ last'.op = "run_pipeline"
            /\ last'.input = last.input)
        => /\ last'.returned = last.returned
           /\ last'.err = last.err
           /\ last'.newick = last.newick
           /\ last'.stats = last.stats
           /\ last'.clusters = last.clusters ]_vars

C14_Witness ==
    /\ last.op = "run_pipeline" /\ last.again /\ last.returned
    /\ Len(last.input.m) = 4
    /\ \E k \in InternalNodes(njTree) : njTree[k].name # NoName

\* the names a serialization has to write
NamesOf(tree) == { tree[k].name : k \in 1..Len(tree) }

\* C15: serialization fails with a SerializationError and returns no string
\* whenever the name of some node holds one of the characters : ; , ( ) [ ],
\* also for the labels a caller passes to /api/process-text.
C15_ReservedCharacterRejected ==
    /\ (last.op = "tree_to_newick" /\ njTree # NoTree
           /\ \E nm \in NamesOf(njTree) : HasReserved(nm))
       => /\ ~last.returned
          /\ last.newick = << >>
          /\ last.err.cls = "SerializationError"
    /\ (last.op \in {"run_pipeline", "process_text_input"}
           /\ ValidInput(EngineInput(last.input)) /\ Len(last.input.m) >= 3
           /\ \E i \in 1..Len(last.input.labels) : HasReserved(last.input.labels[i]))
       => /\ ~last.returned
          /\ last.newick = << >>
          /\ last.response.status # 200

\* ---- reading a Newick text back (skbio's reader), on the pieces of the text
Structural == {"(", ")", ",", ":", ";", "'"}

LargestDistance == CHOOSE d \in Dists : \A e \in Dists : e <= d

\* the number a piece of text stands for
ParseNumber(s) == CHOOSE n \in 0..LargestDistance : ToString(n) = s

\* an unquoted label: its '_' are read as spaces
RECURSIVE Spaced(_)
Spaced(ps) ==
    IF ps = << >> THEN ""
    ELSE (IF Head(ps) = "_" THEN " " ELSE Head(ps)) \o Spaced(Tail(ps))

\* the first position from p on that holds a piece of the set stop
RECURSIVE FirstOf(_, _, _)
FirstOf(toks, p, stop) ==
    IF p > Len(toks) \/ toks[p] \in stop THEN p ELSE FirstOf(toks, p + 1, stop)

\* the label that starts at p, and the position after it
ParseLabel(toks, p) ==
    IF toks[p] = "'"
    THEN LET q == FirstOf(toks, p + 1, {"'"})
             notSep(x) == x # "_"
         IN [name |-> SelectSeq(SubSeq(toks, p + 1, q - 1), notSep), pos |-> q + 1]
    ELSE LET q == FirstOf(toks, p, Structural)
         IN [name |-> IF q = p THEN NoName ELSE << Spaced(SubSeq(toks, p, q - 1)) >>,
             pos |-> q]

RECURSIVE ParseSubtree(_, _)
RECURSIVE ParseList(_, _)
ParseSubtree(toks, p) ==
    LET kids == IF toks[p] = "(" THEN ParseList(toks, p + 1)
                ELSE [nodes |-> << >>, pos |-> p - 1]
        lab  == ParseLabel(toks, kids.pos + 1)
        len  == IF toks[lab.pos] = ":" THEN ParseNumber(toks[lab.pos + 1]) ELSE NoLength
    IN [node |-> [name |-> lab.name, length |-> len, children |-> kids.nodes],
        pos  |-> IF toks[lab.pos] = ":" THEN lab.pos + 2 ELSE lab.pos]
\* the subtrees up to the closing bracket, and the position of that bracket
ParseList(toks, p) ==
    LET first == ParseSubtree(toks, p)
    IN IF toks[first.pos] = ","
       THEN LET rest == ParseList(toks, first.pos + 1)
            IN [nodes |-> << first.node >> \o rest.nodes, pos |-> rest.pos]
       ELSE [nodes |-> << first.node >>, pos |-> first.pos]

ParseNewick(toks) == ParseSubtree(toks, 1).node

\* the tree below node k as nested records
RECURSIVE Nested(_, _)
RECURSIVE NestedAll(_, _)
Nested(tree, k) ==
    [name |-> tree[k].name, length |-> tree[k].length,
     children |-> NestedAll(tree, tree[k].children)]
NestedAll(tree, ks) ==
    IF ks = << >> THEN << >>
    ELSE << Nested(tree, Head(ks)) >> \o NestedAll(tree, Tail(ks))

RECURSIVE LeafNamesOfNested(_)
LeafNamesOfNested(n) ==
    IF n.children = << >> THEN {n.name}
    ELSE UNION { LeafNamesOfNested(n.children[i]) : i \in 1..Len(n.children) }

Consumers == {"tree_to_newick", "get_tree_statistics", "find_clusters"}

\* C17: once the tree is built and labeled, tree_to_newick,
\* get_tree_statistics and find_clusters return and leave the tree as it is:
\* same nodes, same child order, same branch lengths, same names.
C17_ConsumersReadOnly ==
    [][ (last.labeled /\ last' # last /\ last'.op \in Consumers)
        => /\ last'.returned
           /\ last'.labeled
           /\ njTree' = njTree
           /\ njLabels' = njLabels ]_vars

C17_Witness ==
    /\ last.labeled /\ last.returned
    /\ last.op = "find_clusters"
    /\ \E k \in InternalNodes(njTree) : njTree[k].name # NoName
    /\ last.clusters # << >>

\* the name begins with the pieces of base (a counter may follow)
BeginsWith(name, base) ==
    Len(name) >= Len(base) /\ SubSeq(name, 1, Len(base)) = base

\* the majority rule with the share taken among all the leaves below k
FollowsMajorityRule(tree, k) ==
    LET cats == CategoriesOf(tree, k)
        cs   == RangeOf(cats)
        top  == MostCommonIn(cats, cs)
    IN IF 2 * Count(cats, top) > Len(TipsOf(tree, k))
       THEN BeginsWith(tree[k].name, << top, "cluster" >>)
       ELSE /\ Cardinality(cs) >= 2
            /\ BeginsWith(tree[k].name,
                          << top, MostCommonIn(cats, cs \ {top}), "mixed" >>)

\* C18: after labeling, every internal node below the root with a category
\* among its leaves is named '<category>_cluster' if the most frequent
\* category is that of more than half of all its leaves (leaves without a
\* category count in the total), and '<cat1>_<cat2>_mixed' of the two most
\* frequent categories otherwise.  (The root is the subject of C19.)
C18_MajorityRule ==
    (last.op = "name_internal_nodes" /\ last.returned)
    => \A k \in InternalNodes(njTree) \ {Root(njTree)} :
          CategoriesOf(njTree, k) # << >> => FollowsMajorityRule(njTree, k)

\* C19: after name_internal_nodes on a tree whose leaves carry categories,
\* the root has a name, given by the same majority rule as the other
\* internal nodes from the categories of all the leaves.
C19_RootNamed ==
    (last.op = "name_internal_nodes" /\ last.returned
        /\ \E k \in TipNodes(njTree) : HasCategory(njTree[k].name))
    => /\ njTree[Root(njTree)].name # NoName
       /\ BeginsWith(njTree[Root(njTree)].name,
                     << MostCommonIn(CategoriesOf(njTree, Root(njTree)),
                                     RangeOf(CategoriesOf(njTree, Root(njTree)))) >>)

\* the internal nodes below the root, children before their parent
InternalOrder(tree) ==
    LET inner(k) == tree[k].children # << >> /\ k # Root(tree)
    IN SelectSeq(Postorder(tree, Root(tree)), inner)

\* the number of nodes up to position i of the order with the base name of
\* the node at position i
RankOfBase(tree, order, i) ==
    Cardinality({ j \in 1..i :
        GetCommonCategory(tree, order[j]) = GetCommonCategory(tree, order[i]) })

RawLength(m, i, j) ==
    ((Len(m) - 2) * m[i][j] + SumSeq(m[i]) - SumSeq(m[j])) \div (2 * (Len(m) - 2))

\* C21: every branch length of a built tree is non-negative: a length the
\* formulas give as negative is set to 0, the build succeeds, and the other
\* lengths stay what the formulas give (the negative amount is not moved to
\* another branch).  The lengths compared are those of the three leaves of a
\* 3-item input and of the first pair joined of a larger input.
C21_ClampedNotMoved ==
    (last.op = "construct_tree" /\ ValidInput(last.input)
        /\ Len(last.input.m) >= 3)
    => /\ last.returned
       /\ \A k \in 1..(Len(last.tree) - 1) : last.tree[k].length >= 0
       /\ LET m == last.input.m
              p == IF Len(m) = 3 THEN << 2, 3 >> ELSE LowestIndex(m)
          IN /\ last.tree[p[1]].length = Max2(0, RawLength(m, p[1], p[2]))
             /\ last.tree[p[2]].length
                   = Max2(0, m[p[1]][p[2]] - RawLength(m, p[1], p[2]))

\* Q_ij of the input matrix
QOf(m, i, j) == (Len(m) - 2) * m[i][j] - SumSeq(m[i]) - SumSeq(m[j])

\* the pair (i, j) with the lowest Q and, among those, the lowest i, then
\* the lowest j
LowestQPair(m) ==
    LET pairs == { q \in (1..Len(m)) \X (1..Len(m)) : q[1] # q[2] }
    IN CHOOSE p \in pairs :
          \A q \in pairs :
             \/ QOf(m, p[1], p[2]) < QOf(m, q[1], q[2])
             \/ /\ QOf(m, p[1], p[2]) = QOf(m, q[1], q[2])
                /\ \/ p[1] < q[1]
                   \/ p[1] = q[1] /\ p[2] <= q[2]

\* the items outside the pair {i, j}, in the order of the input
OthersOf(m, i, j) == DeleteAt([k \in 1..Len(m) |-> k], {i, j}, 1)

\* C22: at a reduction step with more than 3 active nodes (here the first
\* step of an input of 4 or more items) the pair joined has the lowest Q,
\* among equal Q the lowest (i, j) in the order of the active set, and the
\* distance of the new node to every other k is 0.5 * (d_ik + d_jk - d_ij).
C22_PairJoined ==
    (last.op = "construct_tree" /\ ValidInput(last.input)
        /\ Len(last.input.m) >= 4)
    => LET m == last.input.m
           joined == last.tree[Len(m) + 1].children
           others == OthersOf(m, joined[1], joined[2])
           collapsed == ComputeCollapsedDm(m, joined[1], joined[2])
       IN /\ RangeOf(joined) = { LowestQPair(m)[1], LowestQPair(m)[2] }
          /\ \A a \in 1..Len(others) :
                collapsed[1][a + 1]
                   = (m[joined[1]][others[a]] + m[joined[2]][others[a]]
                         - m[joined[1]][joined[2]]) \div 2

\* the names find_clusters places during its traversal: those of the named
\* nodes of the tree
PlacedNames(tree) == NamesOf(tree) \ {NoName}

\* C23: every cluster started during the traversal of find_clusters, the one
\* open when the traversal ends too, is in the returned list, so every name
\* placed during the traversal is in some cluster of the result.
C23_StartedClustersReturned ==
    (last.op = "find_clusters" /\ last.returned)
    => \A nm \in PlacedNames(njTree) :
          \E i \in 1..Len(last.clusters) : nm \in RangeOf(last.clusters[i])


\* C24: every label of prepare_texts_for_embedding is free of the characters
\* : ; , ( ) [ ], of spaces and of quotes, and the labels of one call are
\* pairwise distinct, whatever the categories and headlines.
NewickReserved == {":", ";", ",", "(", ")", "[", "]"}

C24_LabelsSafeAndDistinct ==
    news.op = "prepare_texts_for_embedding" /\ news.returned
    => /\ \A i \in 1..Len(news.labels) : \A k \in 1..Len(news.labels[i]) :
             news.labels[i][k] \notin NewickReserved \cup {" ", "'", "\""}
       /\ \A i, j \in 1..Len(news.labels) : i # j => news.labels[i] # news.labels[j]

\* C25: for every article that has a category, the part of its label before
\* the first '_' is the article's category.
BeforeFirstUnderscore(s) ==
    IF \E k \in 1..Len(s) : s[k] = "_"
    THEN SubSeq(s, 1, (CHOOSE k \in 1..Len(s) :
                          s[k] = "_" /\ \A h \in 1..(k - 1) : s[h] # "_") - 1)
    ELSE s

C25_CategoryPrefix ==
    news.op = "prepare_texts_for_embedding" /\ news.returned
    => \A i \in 1..Len(procData) :
          "category" \in procData[i].fields
          => BeforeFirstUnderscore(news.labels[i]) = procData[i].category

\* C29: when a /api/process-news request that uploaded a file is answered,
\* the temporary file created for it no longer exists.
C29_TemporaryFileRemoved ==
    /\ news.op = "process_news_dataset"
    /\ news.upload.filename # << >>
    /\ news.response.status # 0
    => news.created \notin tmpFiles


\* C26: in the list find_clusters returns no cluster is empty and no name
\* occurs more than once, within one cluster or in two of them.
C26_NoEmptyNoRepeated ==
    (last.op = "find_clusters" /\ last.returned)
    => /\ \A i \in 1..Len(last.clusters) : last.clusters[i] # << >>
       /\ \A i, j \in 1..Len(last.clusters) :
             \A a \in 1..Len(last.clusters[i]), b \in 1..Len(last.clusters[j]) :
                last.clusters[i][a] = last.clusters[j][b] => i = j /\ a = b


\* C27: under every interleaving of the requests that call get_pipeline,
\* NewsPhylogeneticPipeline is constructed at most once and every request
\* gets that one instance.
C27_PipelineLoadedOnce ==
    /\ Len(objs) <= 1
    /\ \A r, s \in Requests :
          req[r].pipe # 0 /\ req[s].pipe # 0 => req[r].pipe = req[s].pipe


\* C28: name_internal_nodes, tree_to_newick, get_tree_statistics and
\* find_clusters called on an instance on which no construct_tree has yet
\* succeeded raise ValueError and change no state; called after a
\* construct_tree that succeeded they do not raise this error.
NeedATree == {"name_internal_nodes", "tree_to_newick", "get_tree_statistics",
              "find_clusters"}

\* the call before built a tree: construct_tree, or a call that runs it
BuiltJustNow ==
    last.op \in {"construct_tree", "run_pipeline", "process_text_input"}
    /\ last.returned

\* no call of the session has built a tree
NothingBuilt == calls = 0 \/ (calls = 1 /\ ~BuiltJustNow)

C28_CallOrder ==
    [][ (calls' # calls /\ last'.op \in NeedATree)
        => /\ NothingBuilt
              => /\ last'.err = NoTreeError
                 /\ last'.err.cls = "ValueError"
                 /\ ~last'.returned
                 /\ engine' = engine
           /\ BuiltJustNow => last'.err # NoTreeError /\ last'.returned ]_vars

C28_Witness ==
    /\ calls = 2
    /\ last.op = "get_tree_statistics"
    /\ last.err = NoTreeError
    /\ njTree = NoTree
    /\ njLabels # NoLabels

====
